---- MODULE Spec2Model ----
(***************************************************************************)
(* A model of xiuminglib's EXR extraction helpers (io/exr.py), video       *)
(* assembly (vid.py) and Blender scene/light helpers (blender/scene.py,    *)
(* blender/light.py).                                                      *)
(*                                                                         *)
(* Rasters are flattened: a pixel is an index in 1..N, and an H-by-W-by-K  *)
(* array is a function from pixels to K-tuples.  Every array operation of  *)
(* the code is elementwise, so the flattening loses nothing.               *)
(***************************************************************************)
EXTENDS Integers, Sequences, FiniteSets, TLC

VARIABLES
    data,          \* EXR.data: the loaded channel container
    components,    \* the argument of collapse_passes
    collapsed,     \* what collapse_passes returned or raised
    vis,           \* the vis / vis_raw argument
    outdirExists,  \* whether outdir exists on disk
    files,         \* output files written so far: name -> content
    status,        \* "ready", "returned" or the exception raised
    images,        \* the depth and alpha EXR images cv2.imread loads
    rescaled,      \* extract_depth's im before compositing
    imgs,          \* images2video: the frames, each a shape <<h, w>>
    outpath,       \* images2video / save_blend: the outpath argument
    vw,            \* images2video: the VideoWriter and the frames it was given
    engine,        \* bpy.context.scene.render.engine
    objects,       \* the lamp objects of the scene, in order of creation
    world,         \* bpy.context.scene.world: its node tree
    bpyImages,     \* bpy.data.images
    before,        \* the scene or file system as it was when the call began
    fsDirs,        \* directories that exist
    fsFiles,       \* files that exist
    delete_overwritten, \* save_blend's argument
    pc,            \* save_blend's position
    hostCalls,     \* bpy.ops operators save_blend has invoked, in order
    log            \* what save_blend has logged, in order

exrVars == <<data, components, collapsed, vis, outdirExists, files, images,
             rescaled>>
vidVars == <<imgs, vw>>
lightVars == <<engine, objects, world, bpyImages>>
blendVars == <<fsDirs, fsFiles, delete_overwritten, pc, hostCalls, log>>

vars == <<exrVars, vidVars, lightVars, blendVars, status, outpath, before>>

\* The state of the parts a specification does not exercise.
ExrIdle ==
    /\ data = <<>> /\ components = <<>>
    /\ collapsed = [exc |-> "none", arr |-> <<>>]
    /\ vis = FALSE /\ outdirExists = TRUE /\ files = <<>>
    /\ images = <<>> /\ rescaled = <<>>
VidIdle == imgs = <<>> /\ vw = "none"
LightIdle ==
    /\ engine = "CYCLES" /\ objects = <<>> /\ world = <<>> /\ bpyImages = {}
BlendIdle ==
    /\ fsDirs = {} /\ fsFiles = {} /\ delete_overwritten = FALSE
    /\ pc = "idle" /\ hostCalls = <<>> /\ log = <<>>
NotExrIdle == VidIdle /\ LightIdle /\ BlendIdle /\ outpath = "None" /\ before = <<>>
notExrVars == <<vidVars, lightVars, blendVars, outpath, before>>

(***************************************************************************)
(* Bounds                                                                  *)
(***************************************************************************)
NPix == 2          \* pixels of a lighting-pass raster
MaxLevel == 1      \* largest base radiance level of a pass
MaxComps == 3      \* longest component list handed to collapse_passes
DepthPix == 3      \* pixels of a depth raster
MaxDepth == 3      \* largest raw depth value
AlphaDen == 2      \* anti-aliased alpha values are 0/AlphaDen .. AlphaDen/AlphaDen
CompDen == 2       \* normal components are -CompDen/CompDen .. CompDen/CompDen
MaxFrames == 3     \* longest list of frames handed to images2video
MaxSide == 2       \* largest height or width of a frame
MaxLights == 2     \* lamps added to one scene
MaxEnvCalls == 1   \* environment lights set up in one world

dtype_max == 255   \* np.iinfo('uint8').max

Pixels == 1..NPix
Mask == {0, 1}     \* alpha values of a pass (coverage)

NoFiles == <<>>

(***************************************************************************)
(* io/exr.py: extract_intrinsic_images_from_lighting_passes                *)
(***************************************************************************)
GroupPasses == {"diffuse_color", "glossy_color", "diffuse_indirect",
                "diffuse_direct", "glossy_indirect", "glossy_direct"}
Passes == GroupPasses \cup {"composite"}

\* Mutant: only the first component is taken, the others are dropped.
SumComps_first_only(d, comps, ch, p) ==
    IF comps = <<>> THEN 0 ELSE d[Head(comps)][ch][p]

RECURSIVE SumComps(_, _, _, _)
\* np.sum(comp_arrs, axis=0) at one pixel of one channel
SumComps(d, comps, ch, p) ==
    IF comps = <<>> THEN 0
    ELSE d[Head(comps)][ch][p] + SumComps(d, Tail(comps), ch, p)

\* Mutant: the loop stops after the second component.
AlphaSame_second_only(d, comps) ==
    \A ci \in 2..(IF Len(comps) < 2 THEN Len(comps) ELSE 2) :
        \A p \in Pixels : d[comps[1]]["A"][p] = d[comps[ci]]["A"][p]

\* the assertion loop: every later component's alpha equals the first's
AlphaSame(d, comps) ==
    \A ci \in 2..Len(comps) :
        \A p \in Pixels : d[comps[1]]["A"][p] = d[comps[ci]]["A"][p]

\* collapse_passes(components): an RGBA array, or AssertionError
collapse_passes(d, comps) ==
    IF ~AlphaSame(d, comps)
    THEN [exc |-> "AssertionError", arr |-> <<>>]
    ELSE [exc |-> "none",
          arr |-> [p \in Pixels |->
                     <<SumComps(d, comps, "R", p),
                       SumComps(d, comps, "G", p),
                       SumComps(d, comps, "B", p),
                       d[comps[1]]["A"][p]>>]]

\* np.save(join(outdir, name + '.npy'), arr), then matrix_as_image when vis
SaveArray(fs, name, arr, v) ==
    LET npy == ((name \o ".npy") :> arr) @@ fs
    IN  IF v THEN ((name \o ".png") :> arr) @@ npy ELSE npy

\* Mutant: the alpha channel is not copied back from albedo.
Recon_alpha_not_restored(albedo, shading, specularity) ==
    [p \in Pixels |->
        [k \in 1..4 |-> albedo[p][k] * shading[p][k] + specularity[p][k]]]

\* recon = np.multiply(albedo, shading) + specularity;
\* recon[:, :, 3] = albedo[:, :, 3]
Recon(albedo, shading, specularity) ==
    [p \in Pixels |->
        [k \in 1..4 |->
            IF k = 4 THEN albedo[p][4]
            ELSE albedo[p][k] * shading[p][k] + specularity[p][k]]]

\* The body of the method after makedirs: the files it leaves and how it ends.
IntrinsicBody(d, v) ==
    LET albedo == collapse_passes(d, <<"diffuse_color", "glossy_color">>)
        f1 == SaveArray(NoFiles, "albedo", albedo.arr, v)
        shading == collapse_passes(d, <<"diffuse_indirect", "diffuse_direct">>)
        f2 == SaveArray(f1, "shading", shading.arr, v)
        specularity == collapse_passes(d, <<"glossy_indirect", "glossy_direct">>)
        f3 == SaveArray(f2, "specularity", specularity.arr, v)
        recon == Recon(albedo.arr, shading.arr, specularity.arr)
        f4 == SaveArray(f3, "recon", recon, v)
        composite == collapse_passes(d, <<"composite">>)
        f5 == SaveArray(f4, "composite", composite.arr, v)
    IN  IF albedo.exc # "none" THEN [exc |-> albedo.exc, files |-> NoFiles]
        ELSE IF shading.exc # "none" THEN [exc |-> shading.exc, files |-> f1]
        ELSE IF specularity.exc # "none"
             THEN [exc |-> specularity.exc, files |-> f2]
        ELSE IF composite.exc # "none" THEN [exc |-> composite.exc, files |-> f4]
        ELSE [exc |-> "none", files |-> f5]

extract_intrinsic_images_from_lighting_passes ==
    /\ status = "ready"
    /\ LET r == IntrinsicBody(data, vis)
       IN  /\ files' = r.files
           /\ status' = IF r.exc = "none" THEN "returned" ELSE r.exc
    /\ outdirExists' = TRUE
    /\ UNCHANGED <<data, components, collapsed, vis, images, rescaled, notExrVars>>

\* The value of channel k at pixel p of a pass of base level l: flat rasters
\* are constant, the others differ from channel to channel and pixel to pixel.
Texture(l, k, p, flat) == IF flat THEN l ELSE l + (k - 1) + (p - 1)

\* The alpha rasters the shared alpha is drawn from.
SharedAlphas == {[p \in Pixels |-> 0], [p \in Pixels |-> 1],
                 [p \in Pixels |-> p % 2]}

\* A container of lighting passes: every pass carries the shared alpha,
\* except the deviant one (if any), whose alpha differs at pixel devPix.
Container(level, flat, shared, deviant, devPix) ==
    [ps \in Passes |->
        [R |-> [p \in Pixels |-> Texture(level[ps], 1, p, flat)],
         G |-> [p \in Pixels |-> Texture(level[ps], 2, p, flat)],
         B |-> [p \in Pixels |-> Texture(level[ps], 3, p, flat)],
         A |-> [p \in Pixels |->
                  IF ps = deviant /\ p = devPix THEN 1 - shared[p]
                  ELSE shared[p]]]]

InitIntrinsic ==
    /\ \E level \in [GroupPasses -> 0..MaxLevel], flat \in BOOLEAN,
          shared \in SharedAlphas, deviant \in Passes \cup {"none"},
          devPix \in Pixels :
          data = Container(level @@ [ps \in {"composite"} |-> MaxLevel],
                           flat, shared, deviant, devPix)
    /\ vis \in BOOLEAN
    /\ outdirExists \in BOOLEAN
    /\ components = <<>>
    /\ collapsed = [exc |-> "none", arr |-> <<>>]
    /\ files = NoFiles
    /\ status = "ready"
    /\ images = <<>>
    /\ rescaled = <<>>
    /\ NotExrIdle

NextIntrinsic == extract_intrinsic_images_from_lighting_passes

SpecIntrinsic == InitIntrinsic /\ [][NextIntrinsic]_vars

(***************************************************************************)
(* io/exr.py: collapse_passes on its own, over arbitrary component lists   *)
(***************************************************************************)
CollapsePasses == {"diffuse_color", "glossy_color", "diffuse_indirect"}

PassLevel(ps) ==
    CASE ps = "diffuse_color" -> 0
      [] ps = "glossy_color" -> 1
      [] OTHER -> 2

ComponentLists ==
    UNION {[1..n -> CollapsePasses] : n \in 1..MaxComps}

InitCollapse ==
    /\ \E alpha \in [CollapsePasses -> [Pixels -> Mask]] :
          data = [ps \in CollapsePasses |->
                    [R |-> [p \in Pixels |-> Texture(PassLevel(ps), 1, p, FALSE)],
                     G |-> [p \in Pixels |-> Texture(PassLevel(ps), 2, p, FALSE)],
                     B |-> [p \in Pixels |-> Texture(PassLevel(ps), 3, p, FALSE)],
                     A |-> alpha[ps]]]
    /\ components \in ComponentLists
    /\ collapsed = [exc |-> "none", arr |-> <<>>]
    /\ vis = FALSE
    /\ outdirExists = TRUE
    /\ files = NoFiles
    /\ status = "ready"
    /\ images = <<>>
    /\ rescaled = <<>>
    /\ NotExrIdle

CallCollapse ==
    /\ status = "ready"
    /\ collapsed' = collapse_passes(data, components)
    /\ status' = IF collapsed'.exc = "none" THEN "returned" ELSE collapsed'.exc
    /\ UNCHANGED <<data, components, vis, outdirExists, files, images, rescaled,
                   notExrVars>>

NextCollapse == CallCollapse

SpecCollapse == InitCollapse /\ [][NextCollapse]_vars

(***************************************************************************)
(* io/exr.py: extract_depth                                                *)
(*                                                                         *)
(* Depth values are integers; an alpha value a stands for a / AlphaDen.    *)
(* A real number is kept as a fraction [num, den]; den = 0 is the NaN that *)
(* 0 / 0 gives on a floating-point array.                                  *)
(***************************************************************************)
DepthPixels == 1..DepthPix

Max(S) == CHOOSE x \in S : \A y \in S : y <= x
Min(S) == CHOOSE x \in S : \A y \in S : x <= y

\* (arr[..., 0] == arr[..., 1]).all() and (arr[..., 1] == arr[..., 2]).all()
ChannelsSame(arr) ==
    \A p \in DOMAIN arr : arr[p][1] = arr[p][2] /\ arr[p][2] = arr[p][3]

\* np.dstack((arr, alpha))
StackDepthAlpha(arr, alpha) ==
    [p \in DOMAIN arr |-> <<arr[p][1], arr[p][2], arr[p][3], alpha[p]>>]

\* is_fg = depth < depth.max()
Foreground(depth) ==
    {p \in DOMAIN depth : depth[p] < Max({depth[q] : q \in DOMAIN depth})}

\* depth[depth > max_val] = max_val
Clamp(depth, max_val) ==
    [p \in DOMAIN depth |-> IF depth[p] > max_val THEN max_val ELSE depth[p]]

\* im = dtype_max * (max_val - depth) / (max_val - min_val)
Rescale(depth, max_val, min_val) ==
    [p \in DOMAIN depth |->
        [num |-> dtype_max * (max_val - depth[p]), den |-> max_val - min_val]]

\* What casting NaN to uint8 may give: C leaves it undefined; the least and
\* the greatest byte stand for the values a build can produce.
NaNBytes == {0, dtype_max}

\* np.multiply(alpha, im) + np.multiply(1 - alpha, bg), then astype('uint8'):
\* the fraction (a * num) / (AlphaDen * den), truncated
CompositeByte(a, x, nan) ==
    IF x.den = 0 THEN nan ELSE (a * x.num) \div (AlphaDen * x.den)

extract_depth ==
    /\ status = "ready"
    /\ LET alpha == [p \in DepthPixels |-> images.alpha[p][1]]
           arr == images.depth
           depth == [p \in DepthPixels |-> arr[p][1]]
           npy == ("depth.npy" :> StackDepthAlpha(arr, alpha)) @@ NoFiles
           fg == Foreground(depth)
           max_val == Max({depth[p] : p \in fg})
           clamped == Clamp(depth, max_val)
           min_val == Min({clamped[p] : p \in DepthPixels})
           im == Rescale(clamped, max_val, min_val)
       IN  IF ~ChannelsSame(images.alpha) \/ ~ChannelsSame(arr)
           THEN /\ status' = "AssertionError"
                /\ UNCHANGED <<files, rescaled>>
           ELSE IF ~vis
           THEN /\ files' = npy
                /\ status' = "returned"
                /\ UNCHANGED rescaled
           ELSE IF fg = {}
           THEN \* depth[is_fg].max() of an empty selection
                /\ files' = npy
                /\ status' = "ValueError"
                /\ UNCHANGED rescaled
           ELSE \E nan \in NaNBytes :
                /\ rescaled' = im
                /\ files' = ("depth.png" :>
                                [p \in DepthPixels |->
                                    CompositeByte(alpha[p], im[p], nan)]) @@ npy
                /\ status' = "returned"
    /\ UNCHANGED <<data, components, collapsed, vis, outdirExists, images,
                   notExrVars>>

\* An image whose three channels all hold raster r, except that with fault
\* the second channel differs at the first pixel.
ThreeChannels(r, fault) ==
    [p \in DOMAIN r |->
        <<r[p], IF fault /\ p = 1 THEN r[p] + 1 ELSE r[p], r[p]>>]

InitDepth ==
    /\ \E d \in [DepthPixels -> 0..MaxDepth], a \in [DepthPixels -> 0..AlphaDen],
          fault \in {"none", "depth", "alpha"} :
          images = [depth |-> ThreeChannels(d, fault = "depth"),
                    alpha |-> ThreeChannels(a, fault = "alpha")]
    /\ vis \in BOOLEAN
    /\ data = <<>>
    /\ components = <<>>
    /\ collapsed = [exc |-> "none", arr |-> <<>>]
    /\ outdirExists = TRUE
    /\ files = NoFiles
    /\ status = "ready"
    /\ rescaled = <<>>
    /\ NotExrIdle

NextDepth == extract_depth

SpecDepth == InitDepth /\ [][NextDepth]_vars

(***************************************************************************)
(* io/exr.py: extract_normal                                               *)
(*                                                                         *)
(* A component n stands for n / CompDen, an alpha value a for a / AlphaDen.*)
(***************************************************************************)
\* (1 - (arr / 2 + 0.5)) * dtype_max, composited on black with weight alpha
\* and cast to uint8: a/AlphaDen * (CompDen - n)/(2 CompDen) * dtype_max,
\* truncated
NormalByte(n, a) ==
    (a * (CompDen - n) * dtype_max) \div (AlphaDen * 2 * CompDen)

\* Mutant: the visualization keeps the order R, G, B.
NormalVis_not_reversed(d) ==
    [p \in Pixels |->
        <<NormalByte(d["R"][p], d["A"][p]),
          NormalByte(d["G"][p], d["A"][p]),
          NormalByte(d["B"][p], d["A"][p])>>]

\* im.astype(dtype)[..., ::-1]
NormalVis(d) ==
    [p \in Pixels |->
        <<NormalByte(d["B"][p], d["A"][p]),
          NormalByte(d["G"][p], d["A"][p]),
          NormalByte(d["R"][p], d["A"][p])>>]

\* np.dstack((arr, alpha)) with arr = np.dstack((R, G, B))
NormalArray(d) ==
    [p \in Pixels |-> <<d["R"][p], d["G"][p], d["B"][p], d["A"][p]>>]

extract_normal ==
    /\ status = "ready"
    /\ LET npy == ("normal.npy" :> NormalArray(data)) @@ NoFiles
       IN  files' = IF vis THEN ("normal.png" :> NormalVis(data)) @@ npy ELSE npy
    /\ status' = "returned"
    /\ UNCHANGED <<data, components, collapsed, vis, outdirExists, images,
                   rescaled, notExrVars>>

\* A normal map built from one vector and one alpha value: from pixel to
\* pixel the vector's components rotate and the alpha steps by one.
NormalContainer(v, a) ==
    [R |-> [p \in Pixels |-> v[((p - 1) % 3) + 1]],
     G |-> [p \in Pixels |-> v[(p % 3) + 1]],
     B |-> [p \in Pixels |-> v[((p + 1) % 3) + 1]],
     A |-> [p \in Pixels |-> (a + p - 1) % (AlphaDen + 1)]]

InitNormal ==
    /\ \E v \in [1..3 -> (0 - CompDen)..CompDen], a \in 0..AlphaDen :
          data = NormalContainer(v, a)
    /\ vis \in BOOLEAN
    /\ components = <<>>
    /\ collapsed = [exc |-> "none", arr |-> <<>>]
    /\ outdirExists = TRUE
    /\ files = NoFiles
    /\ status = "ready"
    /\ images = <<>>
    /\ rescaled = <<>>
    /\ NotExrIdle

NextNormal == extract_normal

SpecNormal == InitNormal /\ [][NextNormal]_vars

(***************************************************************************)
(* vid.py: images2video                                                    *)
(***************************************************************************)
Shapes == (1..MaxSide) \X (1..MaxSide)

FrameLists == UNION {[1..n -> Shapes] : n \in 0..MaxFrames}

\* outpath = join(const.Dir.tmp, 'images2video.avi') when None
VideoPath(path) == IF path = "None" THEN "tmp/images2video.avi" ELSE path

\* The frames the loop hands to vw.write before it ends: all of them, or
\* those before the first one whose shape is not (h, w).
RECURSIVE WrittenFrames(_, _)
WrittenFrames(frames, hw) ==
    IF frames = <<>> \/ Head(frames) # hw THEN <<>>
    ELSE <<Head(frames)>> \o WrittenFrames(Tail(frames), hw)

images2video ==
    /\ status = "ready"
    /\ IF imgs = <<>>
       THEN \* imgs[0]
            /\ status' = "IndexError"
            /\ UNCHANGED vw
       ELSE LET hw == imgs[1]
                written == WrittenFrames(imgs, hw)
                complete == Len(written) = Len(imgs)
            IN  /\ vw' = [path |-> VideoPath(outpath),
                          size |-> <<hw[2], hw[1]>>,
                          frames |-> written,
                          released |-> complete]
                /\ status' = IF complete THEN "returned" ELSE "AssertionError"
    /\ UNCHANGED <<imgs, outpath, before, exrVars, lightVars, blendVars>>

InitVideo ==
    /\ imgs \in FrameLists
    /\ outpath \in {"None", "out.avi"}
    /\ vw = "none"
    /\ status = "ready"
    /\ before = <<>>
    /\ ExrIdle /\ LightIdle /\ BlendIdle

NextVideo == images2video

SpecVideo == InitVideo /\ [][NextVideo]_vars

(***************************************************************************)
(* blender/light.py: add_light_sun, add_light_area, add_light_point,       *)
(* add_light_env                                                           *)
(***************************************************************************)
Engines == {"CYCLES", "BLENDER_RENDER", "BLENDER_GAME"}
Names == {"None", "key"}
Locations == {<<0, 0, 0>>, <<1, 2, 3>>}
Energies == {1, 100}
Sizes == {1, 5}                 \* in tenths
EnvKinds == {"path", "rgb", "rgba", "pair"}

\* bpy.ops.object.lamp_add(type=..., location=xyz): the new active object
NewLamp(type, xyz) ==
    [type |-> type, location |-> xyz, name |-> type,
     shadow_soft_size |-> "default", size |-> "default",
     strength |-> "default"]

Scene == [objects |-> objects, world |-> world, bpyImages |-> bpyImages]

\* if name is not None: lamp.name = name
Named(lamp, name) == IF name = "None" THEN lamp ELSE [lamp EXCEPT !.name = name]

\* The lines under "# Strength": set the emission strength under Cycles,
\* raise NotImplementedError(engine) otherwise.
FinishLamp(lamp, energy) ==
    /\ objects' = Append(objects,
                         IF engine = "CYCLES"
                         THEN [lamp EXCEPT !.strength = energy] ELSE lamp)
    /\ status' = IF engine = "CYCLES" THEN "returned" ELSE "NotImplementedError"
    /\ before' = Scene
    /\ UNCHANGED <<engine, world, bpyImages, outpath, exrVars, vidVars, blendVars>>

add_light_sun(xyz, name, energy, size) ==
    /\ Len(objects) < MaxLights
    /\ FinishLamp([Named(NewLamp("SUN", xyz), name)
                      EXCEPT !.shadow_soft_size = size], energy)

add_light_area(xyz, name, energy, size) ==
    /\ Len(objects) < MaxLights
    /\ FinishLamp([Named(NewLamp("AREA", xyz), name) EXCEPT !.size = size],
                  energy)

add_light_point(xyz, name, energy) ==
    /\ Len(objects) < MaxLights
    /\ FinishLamp([Named(NewLamp("POINT", xyz), name)
                      EXCEPT !.shadow_soft_size = 0], energy)

\* the background nodes add_light_env has created so far
BackgroundNodes(w) ==
    Cardinality({i \in DOMAIN w.nodes : w.nodes[i].type = "ShaderNodeBackground"})

\* world.use_nodes = True and the nodes and links the call adds
WorldWithEnv(w, kind, strength) ==
    LET bg == [type |-> "ShaderNodeBackground",
               color |-> IF kind = "path" THEN "linked" ELSE <<1, 1, 1, 1>>,
               strength |-> strength]
    IN  [use_nodes |-> TRUE,
         nodes |-> w.nodes \o <<bg>> \o
                   (IF kind = "path"
                    THEN <<[type |-> "ShaderNodeTexCoord"],
                           [type |-> "ShaderNodeTexEnvironment"],
                           [type |-> "ShaderNodeMapping"]>>
                    ELSE <<>>),
         links |-> w.links + (IF kind = "path" THEN 4 ELSE 1)]

add_light_env(kind, strength) ==
    /\ BackgroundNodes(world) < MaxEnvCalls
    /\ before' = Scene
    /\ IF engine # "CYCLES"
       THEN \* assert engine == 'CYCLES'
            /\ status' = "AssertionError"
            /\ UNCHANGED <<world, bpyImages>>
       ELSE IF kind = "pair"
       THEN \* assert len(env) == 4
            /\ status' = "AssertionError"
            /\ UNCHANGED <<world, bpyImages>>
       ELSE /\ bpyImages' = IF kind = "path" THEN bpyImages \cup {"env.hdr"}
                            ELSE bpyImages
            /\ world' = WorldWithEnv(world, kind, strength)
            /\ status' = "returned"
    /\ UNCHANGED <<engine, objects, outpath, exrVars, vidVars, blendVars>>

InitLight ==
    /\ engine \in Engines
    /\ objects = <<>>
    /\ world = [use_nodes |-> FALSE, nodes |-> <<>>, links |-> 0]
    /\ bpyImages = {}
    /\ status = "ready"
    /\ before = [objects |-> <<>>,
                 world |-> [use_nodes |-> FALSE, nodes |-> <<>>, links |-> 0],
                 bpyImages |-> {}]
    /\ outpath = "None"
    /\ ExrIdle /\ VidIdle /\ BlendIdle

NextLight ==
    \/ \E xyz \in Locations, name \in Names, energy \in Energies, size \in Sizes :
          add_light_sun(xyz, name, energy, size)
    \/ \E xyz \in Locations, name \in Names, energy \in Energies, size \in Sizes :
          add_light_area(xyz, name, energy, size)
    \/ \E xyz \in Locations, name \in Names, energy \in Energies :
          add_light_point(xyz, name, energy)
    \/ \E kind \in EnvKinds, strength \in Energies :
          add_light_env(kind, strength)

SpecLight == InitLight /\ [][NextLight]_vars

(***************************************************************************)
(* blender/scene.py: save_blend                                            *)
(*                                                                         *)
(* A path is the sequence of its components; <<>> is the empty string.     *)
(***************************************************************************)
Outpaths == {<<"scene.blend">>, <<"out", "scene.blend">>,
             <<"out", "v1", "scene.blend">>}

\* os.path.dirname
dirname(path) == SubSeq(path, 1, Len(path) - 1)

\* os.path.exists: false for the empty string
exists(path) == path # <<>> /\ (path \in fsDirs \/ path \in fsFiles)

\* the directories os.makedirs(path) creates: path and its missing parents
Prefixes(path) == {SubSeq(path, 1, n) : n \in 1..Len(path)}

\* Files and directories that can exist together: a file or directory below
\* a directory implies that directory.
ConsistentFS(dirs, fls) ==
    /\ \A d \in dirs : Prefixes(d) \subseteq dirs
    /\ \A f \in fls : Len(f) > 1 => dirname(f) \in dirs

CallSaveBlend(path, del) ==
    /\ pc \in {"idle", "done", "raised"}
    /\ outpath' = path
    /\ delete_overwritten' = del
    /\ before' = [fsDirs |-> fsDirs, fsFiles |-> fsFiles]
    /\ hostCalls' = <<>>
    /\ log' = <<>>
    /\ status' = "running"
    /\ pc' = "dirs"
    /\ UNCHANGED <<fsDirs, fsFiles, exrVars, vidVars, lightVars>>

\* Mutant: the overwritten file is never removed.
EnsureDir_no_remove ==
    /\ pc = "dirs"
    /\ LET outdir == dirname(outpath)
       IN  IF ~exists(outdir)
           THEN IF outdir = <<>>
                THEN /\ pc' = "raised"
                     /\ status' = "FileNotFoundError"
                     /\ UNCHANGED <<fsDirs, fsFiles>>
                ELSE /\ fsDirs' = fsDirs \cup Prefixes(outdir)
                     /\ pc' = "pack"
                     /\ UNCHANGED <<fsFiles, status>>
           ELSE /\ pc' = "pack"
                /\ UNCHANGED <<fsDirs, fsFiles, status>>
    /\ UNCHANGED <<outpath, delete_overwritten, before, hostCalls, log,
                   exrVars, vidVars, lightVars>>

\* if not exists(outdir): makedirs(outdir)
\* elif exists(outpath) and delete_overwritten: remove(outpath)
EnsureDir ==
    /\ pc = "dirs"
    /\ LET outdir == dirname(outpath)
       IN  IF ~exists(outdir)
           THEN IF outdir = <<>>
                THEN \* makedirs('')
                     /\ pc' = "raised"
                     /\ status' = "FileNotFoundError"
                     /\ UNCHANGED <<fsDirs, fsFiles>>
                ELSE /\ fsDirs' = fsDirs \cup Prefixes(outdir)
                     /\ pc' = "pack"
                     /\ UNCHANGED <<fsFiles, status>>
           ELSE IF exists(outpath) /\ delete_overwritten
           THEN /\ fsFiles' = fsFiles \ {outpath}
                /\ pc' = "pack"
                /\ UNCHANGED <<fsDirs, status>>
           ELSE /\ pc' = "pack"
                /\ UNCHANGED <<fsDirs, fsFiles, status>>
    /\ UNCHANGED <<outpath, delete_overwritten, before, hostCalls, log,
                   exrVars, vidVars, lightVars>>

\* Mutant: the RuntimeError of autopack_toggle is logged and raised again.
Autopack_reraised ==
    /\ pc = "pack"
    /\ hostCalls' = Append(hostCalls, <<"file.autopack_toggle">>)
    /\ \/ /\ pc' = "save"
          /\ UNCHANGED <<log, status>>
       \/ /\ pc' = "raised"
          /\ status' = "RuntimeError"
          /\ log' = Append(log, <<"error", "Failed to pack some files">>)
    /\ UNCHANGED <<outpath, delete_overwritten, before, fsDirs, fsFiles,
                   exrVars, vidVars, lightVars>>

\* try: bpy.ops.file.autopack_toggle()
\* except RuntimeError: logger.error("Failed to pack some files")
Autopack ==
    /\ pc = "pack"
    /\ hostCalls' = Append(hostCalls, <<"file.autopack_toggle">>)
    /\ \/ UNCHANGED log
       \/ log' = Append(log, <<"error", "Failed to pack some files">>)
    /\ pc' = "save"
    /\ UNCHANGED <<outpath, delete_overwritten, before, fsDirs, fsFiles, status,
                   exrVars, vidVars, lightVars>>

\* the .blend1 file the host keeps of a file it overwrites
Backup(path) == dirname(path) \o <<"scene.blend1">>

\* bpy.ops.wm.save_as_mainfile(filepath=outpath), then logger.info
SaveMainfile ==
    /\ pc = "save"
    /\ hostCalls' = Append(hostCalls, <<"wm.save_as_mainfile", outpath>>)
    /\ fsFiles' = fsFiles \cup {outpath} \cup
                  (IF outpath \in fsFiles THEN {Backup(outpath)} ELSE {})
    /\ log' = Append(log, <<"info", "Saved to", outpath>>)
    /\ pc' = "done"
    /\ status' = "returned"
    /\ UNCHANGED <<outpath, delete_overwritten, before, fsDirs,
                   exrVars, vidVars, lightVars>>

InitBlend ==
    /\ fsDirs \in SUBSET {dirname(f) : f \in Outpaths}
    /\ fsFiles \in SUBSET Outpaths
    /\ ConsistentFS(fsDirs \ {<<>>}, fsFiles) /\ <<>> \notin fsDirs
    /\ outpath = "None"
    /\ delete_overwritten = FALSE
    /\ pc = "idle"
    /\ hostCalls = <<>>
    /\ log = <<>>
    /\ status = "ready"
    /\ before = [fsDirs |-> fsDirs, fsFiles |-> fsFiles]
    /\ ExrIdle /\ VidIdle /\ LightIdle

NextBlend ==
    \/ \E path \in Outpaths, del \in BOOLEAN : CallSaveBlend(path, del)
    \/ EnsureDir
    \/ Autopack
    \/ SaveMainfile

SpecBlend == InitBlend /\ [][NextBlend]_vars

\* save_blend runs to its end once called: each of its steps is taken when
\* it is the one the call has reached.
SpecBlendRuns ==
    SpecBlend /\ WF_vars(EnsureDir) /\ WF_vars(Autopack) /\ WF_vars(SaveMainfile)

(***************************************************************************)
(* Properties of the intrinsic-image decomposition                         *)
(***************************************************************************)
RGB == {"R", "G", "B"}
ChanIdx(ch) == CASE ch = "R" -> 1 [] ch = "G" -> 2 [] ch = "B" -> 3 [] OTHER -> 4

\* every pass of the three groups carries the alpha raster of diffuse_color
GroupsShareAlpha ==
    \A ps \in GroupPasses : data[ps]["A"] = data["diffuse_color"]["A"]

Wrote(name) == name \in DOMAIN files

\* C1: when the passes share one alpha raster the call returns, and recon.npy
\* holds in R, G, B, pixel by pixel, (diffuse_color + glossy_color) *
\* (diffuse_indirect + diffuse_direct) + (glossy_indirect + glossy_direct),
\* and in its alpha channel the albedo alpha, which is the shared input alpha.
C1_ReconIsAlbedoTimesShadingPlusSpecularity ==
    (status # "ready" /\ GroupsShareAlpha) =>
        /\ status = "returned"
        /\ Wrote("recon.npy") /\ Wrote("albedo.npy")
        /\ \A p \in Pixels :
              /\ \A ch \in RGB :
                    files["recon.npy"][p][ChanIdx(ch)] =
                        (data["diffuse_color"][ch][p] + data["glossy_color"][ch][p])
                        * (data["diffuse_indirect"][ch][p] + data["diffuse_direct"][ch][p])
                        + (data["glossy_indirect"][ch][p] + data["glossy_direct"][ch][p])
              /\ files["recon.npy"][p][4] = files["albedo.npy"][p][4]
              /\ files["recon.npy"][p][4] = data["diffuse_color"]["A"][p]

\* C1 witness: a returned call whose reconstruction has, at a covered pixel,
\* a non-zero product and a non-zero specular term, so that alpha * alpha +
\* alpha would differ from the alpha that was copied.
C1_Witness ==
    /\ status = "returned"
    /\ \E p \in Pixels :
          /\ files["recon.npy"][p][4] = 1
          /\ files["albedo.npy"][p][1] * files["shading.npy"][p][1] > 0
          /\ files["specularity.npy"][p][1] > 0
          /\ files["recon.npy"][p][1] # files["recon.npy"][p][2]

IsConst(ps, c) == \A ch \in RGB : \A p \in Pixels : data[ps][ch][p] = c

SyntheticCase(C, S) ==
    /\ IsConst("diffuse_color", C) /\ IsConst("glossy_color", C)
    /\ IsConst("diffuse_direct", S) /\ IsConst("diffuse_indirect", S)
    /\ IsConst("glossy_direct", S) /\ IsConst("glossy_indirect", S)
    /\ GroupsShareAlpha

IntrinsicOutputs == {"albedo.npy", "shading.npy", "specularity.npy", "recon.npy"}

AlphaIsShared(name) ==
    \A p \in Pixels : files[name][p][4] = data["diffuse_color"]["A"][p]

RGBEquals(name, v) ==
    \A p \in Pixels : \A k \in 1..3 : files[name][p][k] = v

\* C2 as stated: on synthetic constant passes (colour passes C, light passes
\* S, one shared alpha) albedo = 2C, shading = 2S, reconstruction = 4*C*S,
\* and all four outputs carry the shared alpha.
C2_Original_ReconIs4CS ==
    \A C \in 0..MaxLevel, S \in 0..MaxLevel :
        (status # "ready" /\ SyntheticCase(C, S)) =>
            /\ status = "returned"
            /\ \A name \in IntrinsicOutputs : Wrote(name) /\ AlphaIsShared(name)
            /\ RGBEquals("albedo.npy", 2 * C)
            /\ RGBEquals("shading.npy", 2 * S)
            /\ RGBEquals("recon.npy", 4 * C * S)

\* C2 amended: on the same synthetic passes albedo = 2C, shading = 2S,
\* specularity = 2S and reconstruction = 4*C*S + 2*S (the specular term is
\* added), and all four outputs carry the shared alpha.
C2_ReconIs4CSPlus2S ==
    \A C \in 0..MaxLevel, S \in 0..MaxLevel :
        (status # "ready" /\ SyntheticCase(C, S)) =>
            /\ status = "returned"
            /\ \A name \in IntrinsicOutputs : Wrote(name) /\ AlphaIsShared(name)
            /\ RGBEquals("albedo.npy", 2 * C)
            /\ RGBEquals("shading.npy", 2 * S)
            /\ RGBEquals("specularity.npy", 2 * S)
            /\ RGBEquals("recon.npy", 4 * C * S + 2 * S)

\* C2 witness: a returned call on synthetic passes with C and S both non-zero
\* and an alpha raster that is not constant.
C2_Witness ==
    /\ status = "returned"
    /\ \E C \in 1..MaxLevel, S \in 1..MaxLevel : SyntheticCase(C, S)
    /\ \E p, q \in Pixels :
          data["diffuse_color"]["A"][p] # data["diffuse_color"]["A"][q]

\* C4 as stated: a call that failed on mismatched alpha has written none of
\* its output files, whichever group holds the mismatch.
C4_NoPartialResults ==
    status = "AssertionError" => files = NoFiles

(***************************************************************************)
(* Properties of collapse_passes                                           *)
(***************************************************************************)
SomeTwoAlphasDiffer ==
    \E i, j \in 1..Len(components) :
        \E p \in Pixels :
            data[components[i]]["A"][p] # data[components[j]]["A"][p]

\* C3: whenever two of the passes handed to collapse_passes differ in alpha
\* at some pixel, the call raises the assertion error and returns no array.
C3_MismatchedAlphaRaises ==
    (status # "ready" /\ SomeTwoAlphasDiffer) =>
        /\ status = "AssertionError"
        /\ collapsed = [exc |-> "AssertionError", arr |-> <<>>]

\* C3 witness: a list of three components in which only the last one's alpha
\* differs from the first's, and the call has raised.
C3_Witness ==
    /\ status = "AssertionError"
    /\ Len(components) = 3
    /\ data[components[1]]["A"] = data[components[2]]["A"]
    /\ data[components[1]]["A"] # data[components[3]]["A"]

(***************************************************************************)
(* Properties of extract_depth                                             *)
(***************************************************************************)
DepthInputsValid == ChannelsSame(images.alpha) /\ ChannelsSame(images.depth)

InDepth(p) == images.depth[p][1]
InAlpha(p) == images.alpha[p][1]
FgPixels == Foreground([p \in DepthPixels |-> InDepth(p)])
FgMax == Max({InDepth(p) : p \in FgPixels})
FgMin == Min({InDepth(p) : p \in FgPixels})

DepthVisIsRight ==
    /\ status = "returned"
    /\ Wrote("depth.npy") /\ Wrote("depth.png")
    /\ \A p \in DepthPixels :
          /\ Len(files["depth.npy"][p]) = 4
          /\ files["depth.png"][p] \in 0..dtype_max
          /\ InAlpha(p) = 0 => files["depth.png"][p] = 0
    /\ \A p \in FgPixels :
          /\ InDepth(p) = FgMax =>
                rescaled[p].den # 0 /\ rescaled[p].num = 0
          /\ InDepth(p) = FgMin =>
                rescaled[p].den # 0 /\ rescaled[p].num = dtype_max * rescaled[p].den

\* C7 as stated: for every depth and alpha raster that pass the input checks,
\* extract_depth with vis_raw saves a 4-channel array and writes a
\* visualization with every value in [0, 255], alpha 0 black, and, before
\* compositing, the foreground maximum at 0 and the foreground minimum at 255.
C7_DepthVisualization ==
    (status # "ready" /\ vis /\ DepthInputsValid) => DepthVisIsRight

\* The same statement for the rasters whose foreground holds two different
\* depths; the code meets it there.
DepthVisRightWhenForegroundVaries ==
    (status # "ready" /\ vis /\ DepthInputsValid
        /\ FgPixels # {} /\ FgMin < FgMax) => DepthVisIsRight

\* That case is reached: a returned call whose foreground holds two depths
\* and a fully covered foreground pixel rescaled to 127 (from 127.5).
DepthVisReached ==
    /\ status = "returned" /\ vis /\ FgPixels # {} /\ FgMin < FgMax
    /\ \E p \in FgPixels : InAlpha(p) = 1 /\ files["depth.png"][p] = 127

(***************************************************************************)
(* Properties of extract_normal                                            *)
(***************************************************************************)
\* floor of a non-negative fraction num / den, by its defining inequalities
IsTruncationOf(b, num, den) == b * den <= num /\ num < (b + 1) * den

\* the byte of component n under alpha a: alpha * (1 - (c/2 + 0.5)) * 255
\* with c = n / CompDen and alpha = a / AlphaDen, truncated
IsNormalByte(b, n, a) ==
    IsTruncationOf(b, a * (CompDen - n) * 255, AlphaDen * 2 * CompDen)

\* C10: extract_normal saves the array in the order R, G, B, A of its input;
\* the visualization holds B, G, R, each alpha * (1 - (c/2 + 0.5)) * 255
\* truncated, every value in [0, 255], and black where alpha is 0.
C10_NormalArrayAndVisualization ==
    status = "returned" =>
        /\ Wrote("normal.npy")
        /\ \A p \in Pixels :
              files["normal.npy"][p] =
                  <<data["R"][p], data["G"][p], data["B"][p], data["A"][p]>>
        /\ vis =>
              /\ Wrote("normal.png")
              /\ \A p \in Pixels :
                    /\ IsNormalByte(files["normal.png"][p][1], data["B"][p], data["A"][p])
                    /\ IsNormalByte(files["normal.png"][p][2], data["G"][p], data["A"][p])
                    /\ IsNormalByte(files["normal.png"][p][3], data["R"][p], data["A"][p])
                    /\ \A k \in 1..3 : files["normal.png"][p][k] \in 0..255
                    /\ data["A"][p] = 0 =>
                          files["normal.png"][p] = <<0, 0, 0>>

\* C10 witness: a visualized normal map with a fully covered pixel whose R
\* and B components differ, a half-covered pixel whose byte was truncated
\* (63 from 63.75).
C10_Witness ==
    /\ status = "returned" /\ vis
    /\ \E p \in Pixels :
          /\ data["A"][p] = AlphaDen
          /\ files["normal.png"][p][1] # files["normal.png"][p][3]
    /\ \E p \in Pixels :
          /\ 0 < data["A"][p] /\ data["A"][p] < AlphaDen
          /\ \E k \in 1..3 :
                2 * AlphaDen * CompDen * files["normal.png"][p][k]
                    # data["A"][p] * (CompDen - data[<<"B", "G", "R">>[k]][p]) * 255

(***************************************************************************)
(* Properties of images2video                                              *)
(***************************************************************************)
\* C6 as stated: when a frame's shape differs from the first frame's, the
\* call fails with no frame written to the video writer opened on outpath.
C6_NoFrameWrittenOnMismatch ==
    status = "AssertionError" => vw.frames = <<>>

(***************************************************************************)
(* Properties of the light helpers                                         *)
(***************************************************************************)
\* C5 as stated: under an engine other than CYCLES every add_light_* call
\* raises and leaves the scene as it was: no lamp added, no name or shadow
\* size set, no world node created.
C5_UnsupportedEngineLeavesNothing ==
    (engine # "CYCLES" /\ status # "ready") =>
        /\ status \in {"NotImplementedError", "AssertionError"}
        /\ Scene = before

(***************************************************************************)
(* Properties of save_blend                                                *)
(***************************************************************************)
\* the directory of outpath is there: the working directory for a bare file
\* name, an existing directory otherwise
OutdirThere == dirname(outpath) = <<>> \/ dirname(outpath) \in fsDirs

C8_RemovedCaseReached ==
    pc = "save" /\ delete_overwritten /\ outpath \in before.fsFiles

PackFailed == <<"error", "Failed to pack some files">> \in {log[i] : i \in DOMAIN log}

BothHostCalls == <<<<"file.autopack_toggle">>, <<"wm.save_as_mainfile", outpath>>>>

\* the pack step comes first and the save operation at most once, with outpath
HostCallsInOrder ==
    \E n \in 0..2 : hostCalls = SubSeq(BothHostCalls, 1, n)

\* after a failed pack the call has logged the error and has not raised
NotAbortedByPack ==
    PackFailed =>
        /\ log[1] = <<"error", "Failed to pack some files">>
        /\ pc \in {"save", "done"}
        /\ status \in {"running", "returned"}
        /\ pc = "done" => status = "returned" /\ hostCalls = BothHostCalls

\* C9: a failure of autopack_toggle is logged and does not abort save_blend:
\* the pack step always precedes the save operation, and a call whose pack
\* step failed goes on to invoke the save operation exactly once, with
\* outpath, and returns.
C9_PackFailureDoesNotAbort ==
    /\ [](HostCallsInOrder /\ NotAbortedByPack)
    /\ (PackFailed /\ pc = "save") ~>
          (PackFailed /\ pc = "done" /\ status = "returned"
             /\ hostCalls = BothHostCalls)

\* C9 witness: a call in which packing failed has returned after saving.
C9_Witness ==
    /\ pc = "done" /\ status = "returned" /\ PackFailed
    /\ hostCalls[2] = <<"wm.save_as_mainfile", outpath>>

====
